---- MODULE Spec2Model ----
(***************************************************************************)
(* DNS response codes (src/iana/rcode.rs): the 4 bit Rcode, the 12 bit     *)
(* OptRcode and the 16 bit TsigRcode, their conversions from and to        *)
(* integers and each other, their comparison and their text rendering.    *)
(*                                                                         *)
(* Values of the three enums are records [ty, tag] for the named variants  *)
(* and [ty, tag |-> "Int", value] for the catch-all variant.  Every        *)
(* function of the source is an operator computed as the source computes   *)
(* it; the caller is a state machine that evaluates one expression at a    *)
(* time: it produces a value (an enum literal, from_int, from_parts, a     *)
(* conversion) and then applies one method to that value.                  *)
(***************************************************************************)
EXTENDS Integers, Sequences, FiniteSets, TLC

VARIABLES status, op, args, ret, retTy, stack, prev

vars == <<status, op, args, ret, retTy, stack, prev>>

---------------------------------------------------------------------------
(* Bounds of the exploration.                                              *)

\* Number of frames the call stack holds before the process aborts.
MaxStack == 6

\* u16 inputs are the values whose low twelve bits are at most MaxLow16 or
\* at least 4095 - MaxLow16, under every setting of the upper four bits.
MaxLow16 == 26

---------------------------------------------------------------------------
(* Machine integers.                                                       *)

U8 == 0..255

U16 == 0..65535

U16Inputs ==
    {h * 4096 + l : h \in 0..15, l \in 0..MaxLow16}
        \cup {h * 4096 + (4095 - l) : h \in 0..15, l \in 0..MaxLow16}

RECURSIVE BitAnd(_, _)
BitAnd(a, b) ==
    IF a = 0 \/ b = 0 THEN 0
    ELSE (a % 2) * (b % 2) + 2 * BitAnd(a \div 2, b \div 2)

RECURSIVE BitOr(_, _)
BitOr(a, b) ==
    IF a = 0 THEN b
    ELSE IF b = 0 THEN a
    ELSE (IF a % 2 = 1 \/ b % 2 = 1 THEN 1 ELSE 0)
             + 2 * BitOr(a \div 2, b \div 2)

\* x << n on u16 (bits shifted out are lost)
Shl16(x, n) == (x * (2 ^ n)) % 65536

\* x >> n
Shr(x, n) == x \div (2 ^ n)

\* x as u8
AsU8(x) == x % 256

\* x as u16, for x: u8
AsU16(x) == x

\* Display of an unsigned integer: its decimal digits
Digit(d) == SubSeq("0123456789", d + 1, d + 1)

RECURSIVE IntFmt(_)
IntFmt(n) == IF n < 10 THEN Digit(n) ELSE IntFmt(n \div 10) \o Digit(n % 10)

\* Ord::cmp on unsigned integers
IntCmp(a, b) == IF a < b THEN "Less" ELSE IF a = b THEN "Equal" ELSE "Greater"

\* Hash::hash on u8: the byte is written to the hasher
U8Hash(v, state) == Append(state, v)

---------------------------------------------------------------------------
(* Rcode                                                                   *)

RcodeNames ==
    {"NoError", "FormErr", "ServFail", "NXDomain", "NotImp", "Refused",
     "YXDomain", "YXRRSet", "NXRRSet", "NotAuth", "NotZone"}

Rcode(name) == [ty |-> "Rcode", tag |-> name]

RcodeInt(v) == [ty |-> "Rcode", tag |-> "Int", value |-> v]

RcodeValues == {Rcode(n) : n \in RcodeNames} \cup {RcodeInt(v) : v \in U8}

Rcode_from_int(value) ==
    LET m == BitAnd(value, 15) IN
    CASE m = 0 -> Rcode("NoError")
      [] m = 1 -> Rcode("FormErr")
      [] m = 2 -> Rcode("ServFail")
      [] m = 3 -> Rcode("NXDomain")
      [] m = 4 -> Rcode("NotImp")
      [] m = 5 -> Rcode("Refused")
      [] m = 6 -> Rcode("YXDomain")
      [] m = 7 -> Rcode("YXRRSet")
      [] m = 8 -> Rcode("NXRRSet")
      [] m = 9 -> Rcode("NotAuth")
      [] m = 10 -> Rcode("NotZone")
      [] OTHER -> RcodeInt(m)

\* to_int with the values of NotAuth and NotZone exchanged
Rcode_to_int_swapped(self) ==
    CASE self.tag = "NoError" -> 0
      [] self.tag = "FormErr" -> 1
      [] self.tag = "ServFail" -> 2
      [] self.tag = "NXDomain" -> 3
      [] self.tag = "NotImp" -> 4
      [] self.tag = "Refused" -> 5
      [] self.tag = "YXDomain" -> 6
      [] self.tag = "YXRRSet" -> 7
      [] self.tag = "NXRRSet" -> 8
      [] self.tag = "NotAuth" -> 10
      [] self.tag = "NotZone" -> 9
      [] self.tag = "Int" -> BitAnd(self.value, 15)

\* to_int returning the stored integer of the catch-all as it is
Rcode_to_int_unmasked(self) ==
    CASE self.tag = "NoError" -> 0
      [] self.tag = "FormErr" -> 1
      [] self.tag = "ServFail" -> 2
      [] self.tag = "NXDomain" -> 3
      [] self.tag = "NotImp" -> 4
      [] self.tag = "Refused" -> 5
      [] self.tag = "YXDomain" -> 6
      [] self.tag = "YXRRSet" -> 7
      [] self.tag = "NXRRSet" -> 8
      [] self.tag = "NotAuth" -> 9
      [] self.tag = "NotZone" -> 10
      [] self.tag = "Int" -> self.value

Rcode_to_int(self) ==
    CASE self.tag = "NoError" -> 0
      [] self.tag = "FormErr" -> 1
      [] self.tag = "ServFail" -> 2
      [] self.tag = "NXDomain" -> 3
      [] self.tag = "NotImp" -> 4
      [] self.tag = "Refused" -> 5
      [] self.tag = "YXDomain" -> 6
      [] self.tag = "YXRRSet" -> 7
      [] self.tag = "NXRRSet" -> 8
      [] self.tag = "NotAuth" -> 9
      [] self.tag = "NotZone" -> 10
      [] self.tag = "Int" -> BitAnd(self.value, 15)

\* Display without the re-classification of the catch-all
Rcode_fmt_raw(self) ==
    CASE self.tag = "NoError" -> "NOERROR"
      [] self.tag = "FormErr" -> "FORMERR"
      [] self.tag = "ServFail" -> "SERVFAIL"
      [] self.tag = "NXDomain" -> "NXDOMAIN"
      [] self.tag = "NotImp" -> "NOTIMP"
      [] self.tag = "Refused" -> "REFUSED"
      [] self.tag = "YXDomain" -> "YXDOMAIN"
      [] self.tag = "YXRRSet" -> "YXRRSET"
      [] self.tag = "NXRRSet" -> "NXRRSET"
      [] self.tag = "NotAuth" -> "NOAUTH"
      [] self.tag = "NotZone" -> "NOTZONE"
      [] self.tag = "Int" -> IntFmt(self.value)

RECURSIVE Rcode_fmt(_)
Rcode_fmt(self) ==
    CASE self.tag = "NoError" -> "NOERROR"
      [] self.tag = "FormErr" -> "FORMERR"
      [] self.tag = "ServFail" -> "SERVFAIL"
      [] self.tag = "NXDomain" -> "NXDOMAIN"
      [] self.tag = "NotImp" -> "NOTIMP"
      [] self.tag = "Refused" -> "REFUSED"
      [] self.tag = "YXDomain" -> "YXDOMAIN"
      [] self.tag = "YXRRSet" -> "YXRRSET"
      [] self.tag = "NXRRSet" -> "NXRRSET"
      [] self.tag = "NotAuth" -> "NOAUTH"
      [] self.tag = "NotZone" -> "NOTZONE"
      [] self.tag = "Int" ->
            LET value == Rcode_from_int(self.value) IN
            IF value.tag = "Int" THEN IntFmt(value.value)
            ELSE Rcode_fmt(value)

\* the derived, structural equality
Rcode_eq_derived(self, other) == self = other

\* PartialEq for Rcode
Rcode_eq(self, other) == Rcode_to_int(self) = Rcode_to_int(other)

\* PartialEq<u8> for Rcode
Rcode_eq_u8(self, other) == Rcode_to_int(self) = other

\* PartialEq<Rcode> for u8
U8_eq_Rcode(self, other) == self = Rcode_to_int(other)

\* PartialOrd for Rcode
Rcode_partial_cmp(self, other) ==
    <<"Some", IntCmp(Rcode_to_int(self), Rcode_to_int(other))>>

\* Ord for Rcode
Rcode_cmp(self, other) == IntCmp(Rcode_to_int(self), Rcode_to_int(other))

\* Hash for Rcode
Rcode_hash(self, state) == U8Hash(Rcode_to_int(self), state)

---------------------------------------------------------------------------
(* OptRcode                                                                *)

OptRcodeNames ==
    {"NoError", "FormErr", "ServFail", "NXDomain", "NotImp", "Refused",
     "YXDomain", "YXRRSet", "NXRRSet", "NotAuth", "NotZone", "BadVers",
     "BadCookie"}

OptRcode(name) == [ty |-> "OptRcode", tag |-> name]

OptRcodeInt(v) == [ty |-> "OptRcode", tag |-> "Int", value |-> v]

OptRcodeValues ==
    {OptRcode(n) : n \in OptRcodeNames} \cup {OptRcodeInt(v) : v \in U16Inputs}

\* from_int without the arm for BadCookie
OptRcode_from_int_no_cookie(value) ==
    LET m == BitAnd(value, 4095) IN
    CASE m = 0 -> OptRcode("NoError")
      [] m = 1 -> OptRcode("FormErr")
      [] m = 2 -> OptRcode("ServFail")
      [] m = 3 -> OptRcode("NXDomain")
      [] m = 4 -> OptRcode("NotImp")
      [] m = 5 -> OptRcode("Refused")
      [] m = 6 -> OptRcode("YXDomain")
      [] m = 7 -> OptRcode("YXRRSet")
      [] m = 8 -> OptRcode("NXRRSet")
      [] m = 9 -> OptRcode("NotAuth")
      [] m = 10 -> OptRcode("NotZone")
      [] m = 16 -> OptRcode("BadVers")
      [] OTHER -> OptRcodeInt(m)

\* from_int keeping the four bits of Rcode instead of twelve
OptRcode_from_int_mask4(value) ==
    LET m == BitAnd(value, 15) IN
    CASE m = 0 -> OptRcode("NoError")
      [] m = 1 -> OptRcode("FormErr")
      [] m = 2 -> OptRcode("ServFail")
      [] m = 3 -> OptRcode("NXDomain")
      [] m = 4 -> OptRcode("NotImp")
      [] m = 5 -> OptRcode("Refused")
      [] m = 6 -> OptRcode("YXDomain")
      [] m = 7 -> OptRcode("YXRRSet")
      [] m = 8 -> OptRcode("NXRRSet")
      [] m = 9 -> OptRcode("NotAuth")
      [] m = 10 -> OptRcode("NotZone")
      [] m = 16 -> OptRcode("BadVers")
      [] m = 23 -> OptRcode("BadCookie")
      [] OTHER -> OptRcodeInt(m)

OptRcode_from_int(value) ==
    LET m == BitAnd(value, 4095) IN
    CASE m = 0 -> OptRcode("NoError")
      [] m = 1 -> OptRcode("FormErr")
      [] m = 2 -> OptRcode("ServFail")
      [] m = 3 -> OptRcode("NXDomain")
      [] m = 4 -> OptRcode("NotImp")
      [] m = 5 -> OptRcode("Refused")
      [] m = 6 -> OptRcode("YXDomain")
      [] m = 7 -> OptRcode("YXRRSet")
      [] m = 8 -> OptRcode("NXRRSet")
      [] m = 9 -> OptRcode("NotAuth")
      [] m = 10 -> OptRcode("NotZone")
      [] m = 16 -> OptRcode("BadVers")
      [] m = 23 -> OptRcode("BadCookie")
      [] OTHER -> OptRcodeInt(m)

OptRcode_to_int(self) ==
    CASE self.tag = "NoError" -> 0
      [] self.tag = "FormErr" -> 1
      [] self.tag = "ServFail" -> 2
      [] self.tag = "NXDomain" -> 3
      [] self.tag = "NotImp" -> 4
      [] self.tag = "Refused" -> 5
      [] self.tag = "YXDomain" -> 6
      [] self.tag = "YXRRSet" -> 7
      [] self.tag = "NXRRSet" -> 8
      [] self.tag = "NotAuth" -> 9
      [] self.tag = "NotZone" -> 10
      [] self.tag = "BadVers" -> 16
      [] self.tag = "BadCookie" -> 23
      [] self.tag = "Int" -> BitAnd(self.value, 15)

\* to_parts taking the rcode from above the low four bits
OptRcode_to_parts_shifted(self) ==
    LET res == OptRcode_to_int(self) IN
    <<Rcode_from_int(AsU8(Shr(res, 4))), AsU8(Shr(res, 8))>>

OptRcode_to_parts(self) ==
    LET res == OptRcode_to_int(self) IN
    <<Rcode_from_int(AsU8(res)), AsU8(Shr(res, 8))>>

OptRcode_rcode(self) == OptRcode_to_parts(self)[1]

OptRcode_ext(self) == OptRcode_to_parts(self)[2]

RECURSIVE OptRcode_fmt(_)
OptRcode_fmt(self) ==
    CASE self.tag = "NoError" -> "NOERROR"
      [] self.tag = "FormErr" -> "FORMERR"
      [] self.tag = "ServFail" -> "SERVFAIL"
      [] self.tag = "NXDomain" -> "NXDOMAIN"
      [] self.tag = "NotImp" -> "NOTIMP"
      [] self.tag = "Refused" -> "REFUSED"
      [] self.tag = "YXDomain" -> "YXDOMAIN"
      [] self.tag = "YXRRSet" -> "YXRRSET"
      [] self.tag = "NXRRSet" -> "NXRRSET"
      [] self.tag = "NotAuth" -> "NOAUTH"
      [] self.tag = "NotZone" -> "NOTZONE"
      [] self.tag = "BadVers" -> "BADVER"
      [] self.tag = "BadCookie" -> "BADCOOKIE"
      [] self.tag = "Int" ->
            LET value == OptRcode_from_int(self.value) IN
            IF value.tag = "Int" THEN IntFmt(value.value)
            ELSE OptRcode_fmt(value)

---------------------------------------------------------------------------
(* TsigRcode                                                               *)

TsigRcodeNames ==
    {"NoError", "FormErr", "ServFail", "NXDomain", "NotImp", "Refused",
     "YXDomain", "YXRRSet", "NXRRSet", "NotAuth", "NotZone", "BadSig",
     "BadKey", "BadTime", "BadMode", "BadName", "BadAlg", "BadTrunc",
     "BadCookie"}

TsigRcode(name) == [ty |-> "TsigRcode", tag |-> name]

TsigRcodeInt(v) == [ty |-> "TsigRcode", tag |-> "Int", value |-> v]

TsigRcodeValues ==
    {TsigRcode(n) : n \in TsigRcodeNames}
        \cup {TsigRcodeInt(v) : v \in U16Inputs}

TsigRcode_from_int(value) ==
    LET m == value IN
    CASE m = 0 -> TsigRcode("NoError")
      [] m = 1 -> TsigRcode("FormErr")
      [] m = 2 -> TsigRcode("ServFail")
      [] m = 3 -> TsigRcode("NXDomain")
      [] m = 4 -> TsigRcode("NotImp")
      [] m = 5 -> TsigRcode("Refused")
      [] m = 6 -> TsigRcode("YXDomain")
      [] m = 7 -> TsigRcode("YXRRSet")
      [] m = 8 -> TsigRcode("NXRRSet")
      [] m = 9 -> TsigRcode("NotAuth")
      [] m = 10 -> TsigRcode("NotZone")
      [] m = 16 -> TsigRcode("BadSig")
      [] m = 17 -> TsigRcode("BadKey")
      [] m = 18 -> TsigRcode("BadTime")
      [] m = 19 -> TsigRcode("BadMode")
      [] m = 20 -> TsigRcode("BadName")
      [] m = 21 -> TsigRcode("BadAlg")
      [] m = 22 -> TsigRcode("BadTrunc")
      [] m = 23 -> TsigRcode("BadCookie")
      [] OTHER -> TsigRcodeInt(m)

TsigRcode_to_int(self) ==
    CASE self.tag = "NoError" -> 0
      [] self.tag = "FormErr" -> 1
      [] self.tag = "ServFail" -> 2
      [] self.tag = "NXDomain" -> 3
      [] self.tag = "NotImp" -> 4
      [] self.tag = "Refused" -> 5
      [] self.tag = "YXDomain" -> 6
      [] self.tag = "YXRRSet" -> 7
      [] self.tag = "NXRRSet" -> 8
      [] self.tag = "NotAuth" -> 9
      [] self.tag = "NotZone" -> 10
      [] self.tag = "BadSig" -> 16
      [] self.tag = "BadKey" -> 17
      [] self.tag = "BadTime" -> 18
      [] self.tag = "BadMode" -> 19
      [] self.tag = "BadName" -> 20
      [] self.tag = "BadAlg" -> 21
      [] self.tag = "BadTrunc" -> 22
      [] self.tag = "BadCookie" -> 23
      [] self.tag = "Int" -> BitAnd(self.value, 15)

\* the conversion keeping only the four bits of the header rcode
TsigRcode_from_OptRcode_low(value) ==
    TsigRcode_from_int(BitAnd(OptRcode_to_int(value), 15))

\* From<Rcode> for TsigRcode
TsigRcode_from_Rcode(value) == TsigRcode_from_int(AsU16(Rcode_to_int(value)))

\* From<OptRcode> for TsigRcode
TsigRcode_from_OptRcode(value) == TsigRcode_from_int(OptRcode_to_int(value))

RECURSIVE TsigRcode_fmt(_)
TsigRcode_fmt(self) ==
    CASE self.tag = "NoError" -> "NOERROR"
      [] self.tag = "FormErr" -> "FORMERR"
      [] self.tag = "ServFail" -> "SERVFAIL"
      [] self.tag = "NXDomain" -> "NXDOMAIN"
      [] self.tag = "NotImp" -> "NOTIMP"
      [] self.tag = "Refused" -> "REFUSED"
      [] self.tag = "YXDomain" -> "YXDOMAIN"
      [] self.tag = "YXRRSet" -> "YXRRSET"
      [] self.tag = "NXRRSet" -> "NXRRSET"
      [] self.tag = "NotAuth" -> "NOAUTH"
      [] self.tag = "NotZone" -> "NOTZONE"
      [] self.tag = "BadSig" -> "BADSIG"
      [] self.tag = "BadKey" -> "BADKEY"
      [] self.tag = "BadTime" -> "BADTIME"
      [] self.tag = "BadMode" -> "BADMODE"
      [] self.tag = "BadName" -> "BADNAME"
      [] self.tag = "BadAlg" -> "BADALG"
      [] self.tag = "BadTrunc" -> "BADTRUNC"
      [] self.tag = "BadCookie" -> "BADCOOKIE"
      [] self.tag = "Int" ->
            LET value == TsigRcode_from_int(self.value) IN
            IF value.tag = "Int" THEN IntFmt(value.value)
            ELSE TsigRcode_fmt(value)

---------------------------------------------------------------------------
(* The caller.  It evaluates one expression at a time: first a call that   *)
(* produces a value from literals and integers (prev = NoCall), then one   *)
(* method applied to the value returned (prev = the producing call).       *)

\* Largest integer stored in the Int operand of a binary operation, and
\* largest u8 operand of a comparison with u8.
MaxOperand == 20

RcodeOperands ==
    {Rcode(n) : n \in RcodeNames} \cup {RcodeInt(v) : v \in 0..MaxOperand}

U8Operands == 0..MaxOperand

\* states of the hasher a value is hashed into
HasherStates == {<<>>, <<1>>}

NoCall == [op |-> "none", args |-> <<>>]

ThisCall == [op |-> op, args |-> args]

\* an evaluation starts from the initial state only: the functions keep no
\* state, so that one evaluation does not influence the next
CanStart == status = "idle"

HasSelf(ty) == status = "returned" /\ retTy = ty /\ prev = NoCall

Returns(o, a, r, ty, p) ==
    /\ status' = "returned"
    /\ op' = o
    /\ args' = a
    /\ ret' = r
    /\ retTy' = ty
    /\ stack' = <<>>
    /\ prev' = p

Init ==
    /\ status = "idle"
    /\ op = "none"
    /\ args = <<>>
    /\ ret = <<>>
    /\ retTy = "none"
    /\ stack = <<>>
    /\ prev = NoCall

\* an enum literal: a named variant or Int(v)
MakeRcode ==
    /\ CanStart
    /\ \E v \in RcodeValues :
        Returns("Rcode", [value |-> v], v, "Rcode", NoCall)

MakeOptRcode ==
    /\ CanStart
    /\ \E v \in OptRcodeValues :
        Returns("OptRcode", [value |-> v], v, "OptRcode", NoCall)

MakeTsigRcode ==
    /\ CanStart
    /\ \E v \in TsigRcodeValues :
        Returns("TsigRcode", [value |-> v], v, "TsigRcode", NoCall)

Call_Rcode_from_int ==
    /\ CanStart
    /\ \E value \in U8 :
        Returns("Rcode_from_int", [value |-> value],
                            Rcode_from_int(value), "Rcode", NoCall)

Call_OptRcode_from_int ==
    /\ CanStart
    /\ \E value \in U16Inputs :
        Returns("OptRcode_from_int", [value |-> value],
                            OptRcode_from_int(value), "OptRcode", NoCall)

Call_TsigRcode_from_int ==
    /\ CanStart
    /\ \E value \in U16Inputs :
        Returns("TsigRcode_from_int", [value |-> value],
                            TsigRcode_from_int(value), "TsigRcode", NoCall)

Call_TsigRcode_from_Rcode ==
    /\ CanStart
    /\ \E value \in RcodeValues :
        Returns("TsigRcode_from_Rcode", [value |-> value],
                            TsigRcode_from_Rcode(value), "TsigRcode", NoCall)

Call_TsigRcode_from_OptRcode ==
    /\ CanStart
    /\ \E value \in OptRcodeValues :
        Returns("TsigRcode_from_OptRcode", [value |-> value],
                            TsigRcode_from_OptRcode(value), "TsigRcode",
                            NoCall)

---------------------------------------------------------------------------
(* OptRcode::from_parts and From<Rcode> for OptRcode call each other; the  *)
(* calls are made one at a time on the call stack.                         *)

Starts(o, a, frame) ==
    /\ status' = "running"
    /\ op' = o
    /\ args' = a
    /\ ret' = <<>>
    /\ retTy' = "none"
    /\ stack' = <<frame>>
    /\ prev' = NoCall

\* a nested call: a new frame, or the end of the stack
Enter(frame) ==
    /\ IF Len(stack) < MaxStack
       THEN stack' = Append(stack, frame) /\ status' = "running"
       ELSE stack' = stack /\ status' = "aborted"
    /\ UNCHANGED <<op, args, ret, retTy, prev>>

Top == stack[Len(stack)]

Call_OptRcode_from_parts ==
    /\ CanStart
    /\ \E rcode \in RcodeValues, ext \in U8 :
        Starts("OptRcode_from_parts", [rcode |-> rcode, ext |-> ext],
               [fn |-> "OptRcode_from_parts", rcode |-> rcode, ext |-> ext])

Call_OptRcode_from_Rcode ==
    /\ CanStart
    /\ \E value \in RcodeValues :
        Starts("OptRcode_from_Rcode", [value |-> value],
               [fn |-> "OptRcode_from_Rcode", value |-> value])

\* the body of OptRcode::from_parts; every caller returns the result as is
OptRcode_from_parts ==
    /\ status = "running"
    /\ Top.fn = "OptRcode_from_parts"
    /\ IF Top.ext = 0
       THEN Enter([fn |-> "OptRcode_from_Rcode", value |-> Top.rcode])
       ELSE Returns(op, args,
                    OptRcode_from_int(
                        BitOr(Shl16(AsU16(Top.ext), 4),
                              AsU16(Rcode_to_int(Top.rcode)))),
                    "OptRcode", NoCall)

\* the body of From<Rcode> for OptRcode
OptRcode_from_Rcode ==
    /\ status = "running"
    /\ Top.fn = "OptRcode_from_Rcode"
    /\ Enter([fn |-> "OptRcode_from_parts", rcode |-> Top.value, ext |-> 0])

---------------------------------------------------------------------------
(* Methods applied to the value returned.                                  *)

Call_Rcode_to_int ==
    /\ HasSelf("Rcode")
    /\ Returns("Rcode_to_int", [self |-> ret], Rcode_to_int(ret), "u8",
               ThisCall)

Call_Rcode_fmt ==
    /\ HasSelf("Rcode")
    /\ Returns("Rcode_fmt", [self |-> ret], Rcode_fmt(ret), "str", ThisCall)

Call_Rcode_eq ==
    /\ HasSelf("Rcode")
    /\ \E other \in RcodeOperands :
        Returns("Rcode_eq", [self |-> ret, other |-> other],
                   Rcode_eq(ret, other), "bool", ThisCall)

Call_Rcode_eq_u8 ==
    /\ HasSelf("Rcode")
    /\ \E other \in U8Operands :
        Returns("Rcode_eq_u8", [self |-> ret, other |-> other],
                   Rcode_eq_u8(ret, other), "bool", ThisCall)

\* the left operand is the integer, the right one the value returned
Call_U8_eq_Rcode ==
    /\ HasSelf("Rcode")
    /\ \E self \in U8Operands :
        Returns("U8_eq_Rcode", [self |-> self, other |-> ret],
                   U8_eq_Rcode(self, ret), "bool", ThisCall)

Call_Rcode_partial_cmp ==
    /\ HasSelf("Rcode")
    /\ \E other \in RcodeOperands :
        Returns("Rcode_partial_cmp", [self |-> ret, other |-> other],
                   Rcode_partial_cmp(ret, other), "Option<Ordering>",
                   ThisCall)

Call_Rcode_cmp ==
    /\ HasSelf("Rcode")
    /\ \E other \in RcodeOperands :
        Returns("Rcode_cmp", [self |-> ret, other |-> other],
                   Rcode_cmp(ret, other), "Ordering", ThisCall)

Call_Rcode_hash ==
    /\ HasSelf("Rcode")
    /\ \E state \in HasherStates :
        Returns("Rcode_hash", [self |-> ret, state |-> state],
                   Rcode_hash(ret, state), "Hasher", ThisCall)

Call_OptRcode_to_int ==
    /\ HasSelf("OptRcode")
    /\ Returns("OptRcode_to_int", [self |-> ret], OptRcode_to_int(ret),
               "u16", ThisCall)

Call_OptRcode_to_parts ==
    /\ HasSelf("OptRcode")
    /\ Returns("OptRcode_to_parts", [self |-> ret], OptRcode_to_parts(ret),
               "(Rcode, u8)", ThisCall)

Call_OptRcode_rcode ==
    /\ HasSelf("OptRcode")
    /\ Returns("OptRcode_rcode", [self |-> ret], OptRcode_rcode(ret),
               "Rcode", ThisCall)

Call_OptRcode_ext ==
    /\ HasSelf("OptRcode")
    /\ Returns("OptRcode_ext", [self |-> ret], OptRcode_ext(ret), "u8",
               ThisCall)

Call_OptRcode_fmt ==
    /\ HasSelf("OptRcode")
    /\ Returns("OptRcode_fmt", [self |-> ret], OptRcode_fmt(ret), "str",
               ThisCall)

Call_TsigRcode_to_int ==
    /\ HasSelf("TsigRcode")
    /\ Returns("TsigRcode_to_int", [self |-> ret], TsigRcode_to_int(ret),
               "u16", ThisCall)

Call_TsigRcode_fmt ==
    /\ HasSelf("TsigRcode")
    /\ Returns("TsigRcode_fmt", [self |-> ret], TsigRcode_fmt(ret), "str",
               ThisCall)

Next ==
    \/ MakeRcode
    \/ MakeOptRcode
    \/ MakeTsigRcode
    \/ Call_Rcode_from_int
    \/ Call_OptRcode_from_int
    \/ Call_TsigRcode_from_int
    \/ Call_TsigRcode_from_Rcode
    \/ Call_TsigRcode_from_OptRcode
    \/ Call_OptRcode_from_parts
    \/ Call_OptRcode_from_Rcode
    \/ OptRcode_from_parts
    \/ OptRcode_from_Rcode
    \/ Call_Rcode_to_int
    \/ Call_Rcode_fmt
    \/ Call_Rcode_eq
    \/ Call_Rcode_eq_u8
    \/ Call_U8_eq_Rcode
    \/ Call_Rcode_partial_cmp
    \/ Call_Rcode_cmp
    \/ Call_Rcode_hash
    \/ Call_OptRcode_to_int
    \/ Call_OptRcode_to_parts
    \/ Call_OptRcode_rcode
    \/ Call_OptRcode_ext
    \/ Call_OptRcode_fmt
    \/ Call_TsigRcode_to_int
    \/ Call_TsigRcode_fmt

Spec == Init /\ [][Next]_vars

---------------------------------------------------------------------------
(* Properties.                                                             *)

\* registry values of the named variants of each type
RcodeTable == 0..10

OptRcodeTable == (0..10) \cup {16, 23}

TsigRcodeTable == (0..10) \cup (16..23)

\* C1: for every Rcode base, OptRcode::from_parts(base, 0) and
\* OptRcode::from(base) terminate: the chain of calls never exhausts the
\* stack, and the OptRcode returned has the integer value of base.
C1_FromPartsZeroReturns ==
    ((op = "OptRcode_from_parts" /\ args.ext = 0)
        \/ op = "OptRcode_from_Rcode")
    => /\ status # "aborted"
       /\ status = "returned" =>
            /\ retTy = "OptRcode"
            /\ OptRcode_to_int(ret)
                 = Rcode_to_int(IF op = "OptRcode_from_parts"
                                THEN args.rcode ELSE args.value)

\* C2: for every 8 bit v, Rcode::from_int(v).to_int() is v & 0x0F, the low
\* four bits of v; for v in 0..=15 it is v itself.
C2_RcodeRoundTrip ==
    (op = "Rcode_to_int" /\ prev.op = "Rcode_from_int")
    => /\ ret = prev.args.value % 16
       /\ prev.args.value \in 0..15 => ret = prev.args.value

C2_Witness ==
    /\ op = "Rcode_to_int"
    /\ prev.op = "Rcode_from_int"
    /\ prev.args.value = 200
    /\ ret = 8

\* C3: for every 16 bit v, OptRcode::from_int(v).to_int() is v & 0x0FFF,
\* the low twelve bits of v.
C3_OptRcodeRoundTrip ==
    (op = "OptRcode_to_int" /\ prev.op = "OptRcode_from_int")
    => ret = prev.args.value % 4096

\* C4: for every 16 bit v, TsigRcode::from_int(v).to_int() is v.
C4_TsigRcodeRoundTrip ==
    (op = "TsigRcode_to_int" /\ prev.op = "TsigRcode_from_int")
    => ret = prev.args.value

\* the value from_int has to return for the masked input m: the named
\* variant with registry value m when m is in the table, else Int(m)
Classified(r, m, table, toInt(_)) ==
    /\ m \in table <=> r.tag # "Int"
    /\ r.tag # "Int" => toInt(r) = m
    /\ r.tag = "Int" => r.value = m /\ r.value \notin table

\* C5: from_int returns, in all three types and for every input, the named
\* variant whose registry value is the masked input exactly when the
\* masked input is in the type's table, and Int(masked input) otherwise;
\* no Int it returns holds the registry value of a named variant.
C5_FromIntPrefersNamed ==
    /\ op = "Rcode_from_int" =>
         /\ ret \in RcodeValues
         /\ Classified(ret, args.value % 16, RcodeTable, Rcode_to_int)
    /\ op = "OptRcode_from_int" =>
         /\ ret.ty = "OptRcode"
         /\ ret.tag \in OptRcodeNames \cup {"Int"}
         /\ Classified(ret, args.value % 4096, OptRcodeTable,
                       OptRcode_to_int)
    /\ op = "TsigRcode_from_int" =>
         /\ ret.ty = "TsigRcode"
         /\ ret.tag \in TsigRcodeNames \cup {"Int"}
         /\ Classified(ret, args.value, TsigRcodeTable, TsigRcode_to_int)

C5_Witness ==
    /\ op = "OptRcode_from_int"
    /\ args.value = 4096 + 23
    /\ ret = OptRcode("BadCookie")

\* C6: for every Rcode base and every ext in 1..=255, the Rcode that
\* OptRcode::from_parts(base, ext).to_parts() returns first, and that
\* .rcode() returns, has the integer value of base.
C6_PartsKeepRcode ==
    /\ (op = "OptRcode_to_parts" /\ prev.op = "OptRcode_from_parts"
            /\ prev.args.ext \in 1..255)
       => Rcode_to_int(ret[1]) = Rcode_to_int(prev.args.rcode)
    /\ (op = "OptRcode_rcode" /\ prev.op = "OptRcode_from_parts"
            /\ prev.args.ext \in 1..255)
       => Rcode_to_int(ret) = Rcode_to_int(prev.args.rcode)

C6_Witness ==
    /\ op = "OptRcode_to_parts"
    /\ prev.op = "OptRcode_from_parts"
    /\ prev.args = [rcode |-> RcodeInt(39), ext |-> 1]
    /\ args.self = OptRcode("BadCookie")
    /\ ret[1] = Rcode("YXRRSet")

\* C7: for every Rcode base and every ext in 0..=255,
\* OptRcode::from_parts(base, ext).ext() is ext, and so is the second
\* component of .to_parts().
C7_ExtIsExtensionOctet ==
    /\ (op = "OptRcode_ext" /\ prev.op = "OptRcode_from_parts")
       => ret = prev.args.ext
    /\ (op = "OptRcode_to_parts" /\ prev.op = "OptRcode_from_parts")
       => ret[2] = prev.args.ext

\* C8: TsigRcode::from(r).to_int() is r.to_int() for every Rcode r, and
\* TsigRcode::from(o).to_int() is o.to_int() for every OptRcode o;
\* OptRcode::BadVers converts to TsigRcode::BadSig, rendered "BADSIG",
\* and OptRcode::BadCookie converts to TsigRcode::BadCookie.
C8_TsigFromKeepsValue ==
    /\ (op = "TsigRcode_to_int" /\ prev.op = "TsigRcode_from_Rcode")
       => ret = Rcode_to_int(prev.args.value)
    /\ (op = "TsigRcode_to_int" /\ prev.op = "TsigRcode_from_OptRcode")
       => ret = OptRcode_to_int(prev.args.value)
    /\ (op = "TsigRcode_from_OptRcode" /\ status = "returned"
            /\ args.value = OptRcode("BadVers"))
       => ret = TsigRcode("BadSig")
    /\ (op = "TsigRcode_from_OptRcode" /\ status = "returned"
            /\ args.value = OptRcode("BadCookie"))
       => ret = TsigRcode("BadCookie")
    /\ (op = "TsigRcode_fmt" /\ prev.op = "TsigRcode_from_OptRcode"
            /\ prev.args.value = OptRcode("BadVers"))
       => ret = "BADSIG"

C8_Witness ==
    /\ op = "TsigRcode_fmt"
    /\ prev.op = "TsigRcode_from_OptRcode"
    /\ prev.args.value = OptRcode("BadVers")
    /\ args.self = TsigRcode("BadSig")
    /\ ret = "BADSIG"

\* C9: a == b exactly when a.to_int() == b.to_int(), a < b exactly when
\* a.to_int() < b.to_int(), values with equal to_int() hash to the same
\* hasher state, and a == n, n == a and a.to_int() == n agree for every
\* Rcode a (named or Int) and integer n.
C9_RcodeComparesByInt ==
    /\ op = "Rcode_eq" =>
         ret = (Rcode_to_int(args.self) = Rcode_to_int(args.other))
    /\ op = "Rcode_partial_cmp" =>
         /\ ret[1] = "Some"
         /\ (ret[2] = "Less")
              = (Rcode_to_int(args.self) < Rcode_to_int(args.other))
         /\ (ret[2] = "Equal")
              = (Rcode_to_int(args.self) = Rcode_to_int(args.other))
    /\ op = "Rcode_cmp" =>
         /\ (ret = "Less")
              = (Rcode_to_int(args.self) < Rcode_to_int(args.other))
         /\ (ret = "Equal")
              = (Rcode_to_int(args.self) = Rcode_to_int(args.other))
    /\ op = "Rcode_hash" =>
         \A b \in RcodeValues :
            Rcode_eq(args.self, b) => Rcode_hash(b, args.state) = ret
    /\ op = "Rcode_eq_u8" =>
         /\ ret = (Rcode_to_int(args.self) = args.other)
         /\ ret = U8_eq_Rcode(args.other, args.self)
    /\ op = "U8_eq_Rcode" =>
         /\ ret = (Rcode_to_int(args.other) = args.self)
         /\ ret = Rcode_eq_u8(args.other, args.self)

C9_Witness ==
    /\ op = "Rcode_eq"
    /\ prev.op = "Rcode"
    /\ args.self = RcodeInt(3)
    /\ args.other = Rcode("NXDomain")
    /\ ret = TRUE

\* the decimal texts of the values of four bits that no variant names
C10_Decimal(m) ==
    CASE m = 11 -> "11" [] m = 12 -> "12" [] m = 13 -> "13"
      [] m = 14 -> "14" [] m = 15 -> "15"

\* C10: for every 8 bit v, Rcode::Int(v) renders the text that
\* Rcode::from_int(v) renders: the text of the variant named by v & 0x0F
\* when that is one of 0..=10 (Int(3) "NXDOMAIN", Int(200) "NXRRSET"),
\* else the decimal of v & 0x0F.
C10_IntRendersReclassified ==
    (op = "Rcode_fmt" /\ prev.op = "Rcode" /\ args.self.tag = "Int")
    => LET v == args.self.value
           m == v % 16
       IN /\ status = "returned"
          /\ ret = Rcode_fmt(Rcode_from_int(v))
          /\ m \in 0..10 =>
               \E n \in RcodeNames :
                  Rcode_to_int(Rcode(n)) = m /\ ret = Rcode_fmt(Rcode(n))
          /\ m \notin 0..10 => ret = C10_Decimal(m)
          /\ v = 3 => ret = "NXDOMAIN"
          /\ v = 200 => ret = "NXRRSET"

C10_Witness ==
    /\ op = "Rcode_fmt"
    /\ prev.op = "Rcode"
    /\ args.self = RcodeInt(200)
    /\ ret = "NXRRSET"

\* the names of the IANA DNS RCODE registry for the values 0..10, in
\* upper case
IanaName(v) ==
    CASE v = 0 -> "NOERROR" [] v = 1 -> "FORMERR" [] v = 2 -> "SERVFAIL"
      [] v = 3 -> "NXDOMAIN" [] v = 4 -> "NOTIMP" [] v = 5 -> "REFUSED"
      [] v = 6 -> "YXDOMAIN" [] v = 7 -> "YXRRSET" [] v = 8 -> "NXRRSET"
      [] v = 9 -> "NOTAUTH" [] v = 10 -> "NOTZONE"

\* C11: for every v in 0..=10, Rcode::from_int(v), OptRcode::from_int(v)
\* and TsigRcode::from_int(v) render the same text, the upper case name
\* the IANA registry gives v (9 is NOTAUTH).
C11_SharedNamesAreIana ==
    (/\ op \in {"Rcode_fmt", "OptRcode_fmt", "TsigRcode_fmt"}
     /\ prev.op \in {"Rcode_from_int", "OptRcode_from_int",
                     "TsigRcode_from_int"}
     /\ prev.args.value \in 0..10)
    => ret = IanaName(prev.args.value)

\* C12: to_int() stays within the width of the type for every value, a
\* catch-all holding any integer included: at most 15 for Rcode and at
\* most 0x0FFF for OptRcode.
C12_ToIntWithinWidth ==
    /\ op = "Rcode_to_int" => ret \in 0..15
    /\ op = "OptRcode_to_int" => ret \in 0..4095

C12_Witness ==
    /\ op = "Rcode_to_int"
    /\ prev.op = "Rcode"
    /\ args.self = RcodeInt(200)
    /\ ret = 8

\* C13: in all three types, for every value x (named or Int of any stored
\* integer), T::from_int(x.to_int()).to_int() is x.to_int().
C13_ToIntIsFixedPoint ==
    /\ op = "Rcode_to_int" => Rcode_to_int(Rcode_from_int(ret)) = ret
    /\ op = "OptRcode_to_int" =>
         OptRcode_to_int(OptRcode_from_int(ret)) = ret
    /\ op = "TsigRcode_to_int" =>
         TsigRcode_to_int(TsigRcode_from_int(ret)) = ret

C13_Witness ==
    /\ op = "OptRcode_to_int"
    /\ prev.op = "OptRcode"
    /\ args.self = OptRcode("BadVers")
    /\ ret = 16
    /\ OptRcode_from_int(ret) = OptRcode("BadVers")

\* a text that is a decimal number: it starts with a digit
IsDecimal(text) == \E d \in 0..9 : SubSeq(text, 1, 1) = Digit(d)

\* the text is that of every value with the same integer, and is the
\* decimal of the integer when it is a decimal
TextByInt(x, text, values, toInt(_), fmt(_)) ==
    /\ \A y \in values : toInt(y) = toInt(x) => fmt(y) = text
    /\ IsDecimal(text) => text = IntFmt(toInt(x))

\* C14: in each of the three types two values with the same to_int()
\* render the same text, and a value that renders as a decimal number
\* renders the decimal of its to_int().
C14_TextIsFunctionOfInt ==
    /\ op = "Rcode_fmt" =>
         TextByInt(args.self, ret, RcodeValues, Rcode_to_int, Rcode_fmt)
    /\ op = "OptRcode_fmt" =>
         TextByInt(args.self, ret, OptRcodeValues, OptRcode_to_int,
                   OptRcode_fmt)
    /\ op = "TsigRcode_fmt" =>
         TextByInt(args.self, ret, TsigRcodeValues, TsigRcode_to_int,
                   TsigRcode_fmt)

====
